---- MODULE Spec2Model ----
(***************************************************************************)
(* A model of go-launcher: the integrity verifier (file.go), the fetcher   *)
(* (http.go), the platform filesystem wrappers (file.insane.go for the     *)
(* windows build, the non-windows wrappers otherwise) and the rule         *)
(* evaluator (testRules and Rule.testRule), the batch downloads, main,     *)
(* the archive extraction, downloadJdk and writeJson.                      *)
(*                                                                         *)
(* Byte strings are numbered: 0 is the empty byte string, 1..NumBodies are *)
(* distinct non-empty contents.  A hexadecimal hash string is the record   *)
(* [len, id]: its length in characters and the content whose digest it     *)
(* spells (-1: the digest of no content of the model).  SHA-1 and SHA-256  *)
(* are injective on the model's contents and differ in output length.      *)
(* An error value is the sequence of the messages errors.Join has joined;  *)
(* the nil error is the empty sequence.                                     *)
(***************************************************************************)
EXTENDS Integers, Sequences, FiniteSets, TLC

VARIABLES goos, goarch, fs, target, pc, call, rules, features, verdict,
          batch, orch, units, main, ext, jdk, wj

vars == <<goos, goarch, fs, target, pc, call, rules, features, verdict,
          batch, orch, units, main, ext, jdk, wj>>

\* The state of the batch downloads, of main, of the archive extraction, of
\* downloadJdk and of writeJson.
restVars == <<batch, orch, units, main, ext, jdk, wj>>

\* Bounds of the model.
NumPaths == 1

NumBodies == 1

MaxRules == 2

\* Lengths of the hexadecimal digests hashFile accepts.
Sha1HexLen == 40

Sha256HexLen == 64

Paths == 1..NumPaths

Bodies == 0..NumBodies

Urls == {"url"}

GOOS == {"linux", "windows"}

GOARCH == {"amd64", "arm64"}

Statuses == {200, 404}

Nil == <<>>

\* The nil *string of downloadFileRaw and downloadJsonRaw.
NoHash == [len |-> -1, id |-> -1]

\* Hash strings: the digests of the contents, the empty string (a manifest
\* record without a hash) and a 32 character string.
HashStrings ==
    {[len |-> l, id |-> b] : l \in {Sha1HexLen, Sha256HexLen}, b \in Bodies}
        \cup {[len |-> 0, id |-> -1], [len |-> 32, id |-> -1]}

\* The content of the file at path, -1 when no file exists there.
FileAt(files, path) == IF path \in DOMAIN files THEN files[path] ELSE -1

HashArgs == HashStrings \cup {NoHash}

\* The state of the files under the model's paths: the paths that exist and
\* their content.
FileStates == UNION {[S -> Bodies] : S \in SUBSET Paths}

\* hex.EncodeToString(sha1.Sum(data)) and its SHA-256 counterpart.
sha1Hex(data) == [len |-> Sha1HexLen, id |-> data]

sha256Hex(data) == [len |-> Sha256HexLen, id |-> data]

\* errors.Join: nil operands are dropped, the others are kept in order.
JoinLast(a, b) == IF b = <<>> THEN a ELSE b

Join(a, b) == a \o b

Has(trace, e) == \E i \in DOMAIN trace : trace[i] = e

HasAny(trace, es) == \E i \in DOMAIN trace : trace[i] \in es

\* The file system after os.Remove(path) and after a write of data to path.
Removed(files, path) == [q \in DOMAIN files \ {path} |-> files[q]]

Written(files, path, data) ==
    [q \in DOMAIN files \cup {path} |-> IF q = path THEN data ELSE files[q]]

\* fileExists of the non-windows build: os.Stat reports no error.
fileExistsSane(path, files) == path \in DOMAIN files

\* fileExists of the windows build: os.Stat reports an error.
fileExistsInsane(path, files) == ~(path \in DOMAIN files)

fileExists(path, files) ==
    IF goos = "windows" THEN fileExistsInsane(path, files)
    ELSE fileExistsSane(path, files)

\* The faults the environment can inject into one validateHash call.  The
\* call returns at the first I/O error, so one call meets at most one.
Faults == {{}, {"open"}, {"read"}, {"remove"}}

\* hashFile: open the file, then select the digest by the length of sha,
\* then hash the content and compare.
hashFile(path, sha, files, faults) ==
    IF path \notin DOMAIN files
    THEN [ok |-> FALSE, err |-> <<"failed to hash file", "enoent">>,
          trace |-> <<"open:enoent">>]
    ELSE IF "open" \in faults
    THEN [ok |-> FALSE, err |-> <<"failed to hash file", "eio">>,
          trace |-> <<"open:eio">>]
    ELSE IF sha.len \notin {Sha1HexLen, Sha256HexLen}
    THEN [ok |-> FALSE, err |-> <<"Unknown hash size">>, trace |-> <<"open">>]
    ELSE IF "read" \in faults
    THEN [ok |-> FALSE, err |-> <<"failed to hash file", "eio">>,
          trace |-> <<"open", "read:eio">>]
    ELSE LET calculated == IF sha.len = Sha1HexLen THEN sha1Hex(files[path])
                           ELSE sha256Hex(files[path])
         IN  [ok |-> calculated = sha, err |-> Nil, trace |-> <<"open", "read">>]

\* validateHash: hash the file if it exists and delete it on a mismatch.
validateHash(path, hash, files, faults) ==
    IF fileExists(path, files)
    THEN LET h == hashFile(path, hash, files, faults)
         IN  IF h.err # Nil
             THEN [result |-> FALSE,
                   err |-> Join(<<"could not validate hash of">>, h.err),
                   fs |-> files, trace |-> <<"stat">> \o h.trace]
             ELSE IF ~h.ok
             THEN IF "remove" \in faults
                  THEN [result |-> FALSE,
                        err |-> <<"could not delete corrupted file", "eio">>,
                        fs |-> files,
                        trace |-> <<"stat">> \o h.trace \o <<"remove:eio">>]
                  ELSE [result |-> FALSE, err |-> Nil,
                        fs |-> Removed(files, path),
                        trace |-> <<"stat">> \o h.trace \o <<"remove">>]
             ELSE [result |-> TRUE, err |-> Nil, fs |-> files,
                   trace |-> <<"stat">> \o h.trace]
    ELSE [result |-> FALSE, err |-> Nil, fs |-> files, trace |-> <<"stat">>]

\* What the server and the connection do to one http.Get: no connection, or
\* a response with a status and a body whose transfer completes or breaks.
Responses ==
    {[fault |-> "connect", status |-> 0, body |-> 0]}
        \cup {[fault |-> f, status |-> s, body |-> b] :
                 f \in {"none", "copy"}, s \in Statuses, b \in Bodies}

\* json.Unmarshal: the empty body is no JSON document; any other body
\* decodes to the document it spells.
UnmarshalOk(buffer) == buffer # 0

\* No batch call, no goroutine, no run of main and no extraction yet.
NoBatch == [kind |-> "none", libraries |-> <<>>, objects |-> <<>>]

NoOrch ==
    [pc |-> "idle", i |-> 0, remaining |-> {}, classpath |-> <<>>,
     downloaded |-> {}, length |-> 0, received |-> 0, err |-> Nil,
     ret |-> <<>>, index |-> ""]

NoUnits == <<>>

NoMain == [pc |-> "idle"]

NoExt == [pc |-> "idle"]

NoJdk == [pc |-> "idle"]

NoWrite == [pc |-> "idle"]

RestIdle ==
    /\ batch = NoBatch
    /\ orch = NoOrch
    /\ units = NoUnits
    /\ main = NoMain
    /\ ext = NoExt
    /\ jdk = NoJdk
    /\ wj = NoWrite

NoCall ==
    [op |-> "none", seq |-> 0, path |-> 1, url |-> "url", hash |-> NoHash,
     preFile |-> -1, preTarget |-> -1, trace |-> <<>>, err |-> Nil,
     result |-> FALSE, body |-> -1, done |-> FALSE]

NewCall(op, path, url, hash) ==
    [op |-> op, seq |-> 1 - call.seq, path |-> path, url |-> url, hash |-> hash,
     preFile |-> FileAt(fs, path), preTarget |-> target, trace |-> <<>>, err |-> Nil,
     result |-> FALSE, body |-> -1, done |-> FALSE]

Init ==
    /\ goos \in GOOS
    /\ goarch = "amd64"
    /\ fs \in FileStates
    /\ target = -1
    /\ pc = "idle"
    /\ call = NoCall
    /\ rules = <<>>
    /\ features = <<>>
    /\ verdict = [called |-> FALSE, allowed |-> FALSE, matched |-> <<>>, trail |-> <<>>]
    /\ RestIdle

\* A call of validateHash(path, hash) by itself.
ValidateHash(path, hash, faults) ==
    /\ pc = "idle"
    /\ LET v == validateHash(path, hash, fs, faults)
       IN  /\ fs' = v.fs
           /\ call' = [NewCall("validateHash", path, "url", hash) EXCEPT
                          !.trace = v.trace, !.err = v.err,
                          !.result = v.result, !.done = TRUE]
    /\ UNCHANGED <<restVars, goos, goarch, target, pc, rules, features, verdict>>

\* downloadFileRaw, lines 28-37: the cache check.
DownloadFileRawBegin(path, url, hash, faults) ==
    /\ pc = "idle"
    /\ LET c == NewCall("downloadFileRaw", path, url, hash)
       IN  IF hash # NoHash
           THEN LET v == validateHash(path, hash, fs, faults)
                IN  /\ fs' = v.fs
                    /\ IF v.err # Nil
                       THEN /\ call' = [c EXCEPT !.trace = v.trace, !.done = TRUE,
                                           !.err = Join(<<"failed to validate">>, v.err)]
                            /\ pc' = "idle"
                       ELSE IF v.result
                       THEN /\ call' = [c EXCEPT !.trace = v.trace, !.done = TRUE,
                                                  !.result = TRUE]
                            /\ pc' = "idle"
                       ELSE /\ call' = [c EXCEPT !.trace = v.trace]
                            /\ pc' = "create"
           ELSE /\ fs' = fs
                /\ call' = c
                /\ pc' = "create"
    /\ UNCHANGED <<restVars, goos, goarch, target, rules, features, verdict>>

\* downloadFileRaw, lines 39-47: createParents and createFile.
DownloadFileRawCreate(mkdirFails, createFails) ==
    /\ pc = "create"
    /\ IF mkdirFails
       THEN /\ call' = [call EXCEPT !.trace = @ \o <<"mkdir:eio">>, !.done = TRUE,
                           !.err = <<"failed to create parents of", "eio">>]
            /\ fs' = fs
            /\ pc' = "idle"
       ELSE IF createFails
       THEN /\ call' = [call EXCEPT !.trace = @ \o <<"mkdir", "create:eio">>,
                           !.done = TRUE,
                           !.err = <<"failed to create file", "eio">>]
            /\ fs' = fs
            /\ pc' = "idle"
       ELSE /\ call' = [call EXCEPT !.trace = @ \o <<"mkdir", "create">>]
            /\ fs' = Written(fs, call.path, 0)
            /\ pc' = "get"
    /\ UNCHANGED <<restVars, goos, goarch, target, rules, features, verdict>>

\* downloadFileRaw, lines 49-63: http.Get, the status check and io.Copy.
DownloadFileRawGet(resp, removeFails) ==
    /\ pc = "get"
    /\ IF resp.fault = "connect"
       THEN /\ call' = [call EXCEPT !.trace = @ \o <<"http:error">>, !.done = TRUE,
                           !.err = <<"failed to download", "connect">>]
            /\ fs' = fs
            /\ pc' = "idle"
       ELSE IF resp.status \div 100 # 2
       THEN /\ call' = [call EXCEPT !.trace = @ \o <<"http">>, !.done = TRUE,
                           !.err = <<"failed to download: status">>]
            /\ fs' = fs
            /\ pc' = "idle"
       ELSE IF resp.fault = "copy"
       THEN /\ call' = [call EXCEPT
                           !.trace = @ \o <<"http", "write:eio">>
                               \o (IF removeFails THEN <<"remove:eio">> ELSE <<"remove">>),
                           !.done = TRUE,
                           !.err = <<"failed to download", "copy">>]
            /\ fs' = IF removeFails THEN fs ELSE Removed(fs, call.path)
            /\ pc' = "idle"
       ELSE /\ fs' = Written(fs, call.path, resp.body)
            /\ IF call.hash # NoHash
               THEN /\ call' = [call EXCEPT !.trace = @ \o <<"http", "write">>,
                                   !.body = resp.body]
                    /\ pc' = "verify"
               ELSE /\ call' = [call EXCEPT !.trace = @ \o <<"http", "write">>,
                                   !.body = resp.body, !.done = TRUE,
                                   !.result = TRUE]
                    /\ pc' = "idle"
    /\ UNCHANGED <<restVars, goos, goarch, target, rules, features, verdict>>

DownloadFileRawVerifyIgnored(faults) ==
    /\ pc = "verify"
    /\ LET v == validateHash(call.path, call.hash, fs, faults)
       IN  /\ fs' = v.fs
           /\ call' = [call EXCEPT !.trace = @ \o v.trace, !.done = TRUE,
                                   !.result = TRUE]
    /\ pc' = "idle"
    /\ UNCHANGED <<restVars, goos, goarch, target, rules, features, verdict>>

\* downloadFileRaw, lines 65-74: the validation of the downloaded file.
DownloadFileRawVerify(faults) ==
    /\ pc = "verify"
    /\ LET v == validateHash(call.path, call.hash, fs, faults)
       IN  /\ fs' = v.fs
           /\ IF v.err # Nil
              THEN call' = [call EXCEPT !.trace = @ \o v.trace, !.done = TRUE,
                               !.err = Join(<<"could not validate hash of">>, v.err)]
              ELSE IF ~v.result
              THEN call' = [call EXCEPT !.trace = @ \o v.trace, !.done = TRUE,
                               !.err = <<"download failed to download">>]
              ELSE call' = [call EXCEPT !.trace = @ \o v.trace, !.done = TRUE,
                               !.result = TRUE]
    /\ pc' = "idle"
    /\ UNCHANGED <<restVars, goos, goarch, target, rules, features, verdict>>

\* The outcome of downloadJsonRaw: the error, the I/O it did and the target
\* structure afterwards.
downloadJsonRawParseFirst(hash, resp, structure) ==
    IF resp.fault = "connect"
    THEN [err |-> <<"failed to download", "connect">>, trace |-> <<"http:error">>,
          structure |-> structure]
    ELSE IF resp.status \div 100 # 2
    THEN [err |-> <<"failed to download: status">>, trace |-> <<"http">>,
          structure |-> structure]
    ELSE IF resp.fault = "copy"
    THEN [err |-> <<"failed to copy into a buffer", "eio">>,
          trace |-> <<"http", "read:eio">>, structure |-> structure]
    ELSE IF ~UnmarshalOk(resp.body)
    THEN [err |-> <<"Failed to parse JSON of", "syntax">>,
          trace |-> <<"http", "read", "parse:error">>, structure |-> structure]
    ELSE IF hash # NoHash /\ sha1Hex(resp.body) # hash
    THEN [err |-> <<"failed to verify hash of">>,
          trace |-> <<"http", "read", "parse", "sha1">>, structure |-> resp.body]
    ELSE [err |-> Nil, trace |-> <<"http", "read", "parse", "sha1">>,
          structure |-> resp.body]

downloadJsonRaw(hash, resp, structure) ==
    IF resp.fault = "connect"
    THEN [err |-> <<"failed to download", "connect">>, trace |-> <<"http:error">>,
          structure |-> structure]
    ELSE IF resp.status \div 100 # 2
    THEN [err |-> <<"failed to download: status">>, trace |-> <<"http">>,
          structure |-> structure]
    ELSE IF resp.fault = "copy"
    THEN [err |-> <<"failed to copy into a buffer", "eio">>,
          trace |-> <<"http", "read:eio">>, structure |-> structure]
    ELSE IF hash # NoHash /\ sha1Hex(resp.body) # hash
    THEN [err |-> <<"failed to verify hash of">>,
          trace |-> <<"http", "read", "sha1">>, structure |-> structure]
    ELSE LET hashed == IF hash # NoHash THEN <<"sha1">> ELSE <<>>
         IN  IF ~UnmarshalOk(resp.body)
             THEN [err |-> <<"Failed to parse JSON of", "syntax">>,
                   trace |-> <<"http", "read">> \o hashed \o <<"parse:error">>,
                   structure |-> structure]
             ELSE [err |-> Nil,
                   trace |-> <<"http", "read">> \o hashed \o <<"parse">>,
                   structure |-> resp.body]

\* A call of downloadJsonRaw(url, hash, &target).
DownloadJsonRaw(url, hash, resp) ==
    /\ pc = "idle"
    /\ LET r == downloadJsonRaw(hash, resp, target)
       IN  /\ target' = r.structure
           /\ call' = [NewCall("downloadJsonRaw", 1, url, hash) EXCEPT
                          !.trace = r.trace, !.err = r.err,
                          !.result = (r.err = Nil),
                          !.body = IF Has(r.trace, "read") THEN resp.body ELSE -1,
                          !.done = TRUE]
    /\ UNCHANGED <<restVars, goos, goarch, fs, pc, rules, features, verdict>>

\* The Downloadable values: records of a manifest with a url and a hash
\* field (Sha1, Hash or Checksum), which is the empty string when the
\* manifest declares none.
Downloadables == [Url : Urls, Sha1 : HashStrings]

\* Downloadable.url() and Downloadable.hash(): hash() returns the address of
\* the field, which is never nil.
urlOf(this) == this.Url

hashOf(this) == this.Sha1

\* downloadFile: downloadFileRaw(path, downloadable.url(),
\* downloadable.hash()), up to the end of its cache check.
DownloadFile(path, downloadable, faults) ==
    /\ pc = "idle"
    /\ LET c == NewCall("downloadFile", path, urlOf(downloadable),
                        hashOf(downloadable))
           v == validateHash(path, c.hash, fs, faults)
       IN  IF c.hash # NoHash
           THEN /\ fs' = v.fs
                /\ IF v.err # Nil
                   THEN /\ call' = [c EXCEPT !.trace = v.trace, !.done = TRUE,
                                       !.err = Join(<<"failed to validate">>, v.err)]
                        /\ pc' = "idle"
                   ELSE IF v.result
                   THEN /\ call' = [c EXCEPT !.trace = v.trace, !.done = TRUE,
                                              !.result = TRUE]
                        /\ pc' = "idle"
                   ELSE /\ call' = [c EXCEPT !.trace = v.trace]
                        /\ pc' = "create"
           ELSE /\ fs' = fs
                /\ call' = c
                /\ pc' = "create"
    /\ UNCHANGED <<restVars, goos, goarch, target, rules, features, verdict>>

Next ==
    \/ \E path \in Paths, hash \in HashStrings, faults \in Faults :
          ValidateHash(path, hash, faults)
    \/ \E path \in Paths, downloadable \in Downloadables, faults \in Faults :
          DownloadFile(path, downloadable, faults)
    \/ \E path \in Paths, url \in Urls, hash \in HashArgs, faults \in Faults :
          DownloadFileRawBegin(path, url, hash, faults)
    \/ \E mkdirFails \in BOOLEAN, createFails \in BOOLEAN :
          DownloadFileRawCreate(mkdirFails, createFails)
    \/ \E resp \in Responses, removeFails \in BOOLEAN :
          DownloadFileRawGet(resp, removeFails)
    \/ \E faults \in Faults : DownloadFileRawVerify(faults)

Spec == Init /\ [][Next]_vars

\* The JSON fetch by itself: the target structure starts as the zero value.
JsonInit ==
    /\ goos \in GOOS
    /\ goarch = "amd64"
    /\ fs = <<>>
    /\ target = -1
    /\ pc = "idle"
    /\ call = NoCall
    /\ rules = <<>>
    /\ features = <<>>
    /\ verdict = [called |-> FALSE, allowed |-> FALSE, matched |-> <<>>, trail |-> <<>>]
    /\ RestIdle

JsonNext ==
    \E url \in Urls, hash \in HashArgs, resp \in Responses :
        DownloadJsonRaw(url, hash, resp)

JsonSpec == JsonInit /\ [][JsonNext]_vars

\* ---- The rule evaluator ----

\* The feature toggles rules can require (main sets them for the run).
FeatureKeys == {"is_demo_user"}

\* map[string]bool values over the feature keys: a key is absent or bound.
FeatureMaps == UNION {[S -> BOOLEAN] : S \in SUBSET FeatureKeys}

\* Rule.Action is any string of the manifest; "" is a rule without one.
Actions == {"allow", "disallow", ""}

\* The Rule structure; the empty string is an unset os field.
RuleSet ==
    [Action : Actions, Features : FeatureMaps,
     Os : [Arch : {"", "arm64"}, Name : {"", "windows"}]]

testRuleZeroValue(this, feats) ==
    IF \E ruleFeature \in DOMAIN this.Features :
           (IF ruleFeature \in DOMAIN feats THEN feats[ruleFeature] ELSE FALSE)
               # this.Features[ruleFeature]
    THEN FALSE
    ELSE IF this.Os.Arch # "" /\ goarch # this.Os.Arch THEN FALSE
    ELSE IF this.Os.Name # "" /\ goos # this.Os.Name THEN FALSE
    ELSE TRUE

\* Rule.testRule: some required feature missing or different: false; then
\* the os arch and the os name against runtime.GOARCH and runtime.GOOS.
testRule(this, feats) ==
    IF \E ruleFeature \in DOMAIN this.Features :
           \/ ruleFeature \notin DOMAIN feats
           \/ feats[ruleFeature] # this.Features[ruleFeature]
    THEN FALSE
    ELSE IF this.Os.Arch # "" /\ goarch # this.Os.Arch THEN FALSE
    ELSE IF this.Os.Name # "" /\ goos # this.Os.Name THEN FALSE
    ELSE TRUE

RECURSIVE testRulesLoopFirstMatch(_, _, _, _)
testRulesLoopFirstMatch(rs, feats, i, action) ==
    IF i > Len(rs) THEN <<action>>
    ELSE IF testRule(rs[i], feats)
    THEN <<action>> \o [j \in 1..(Len(rs) - i + 1) |-> rs[i].Action]
    ELSE <<action>> \o testRulesLoopFirstMatch(rs, feats, i + 1, action)

\* The loop of testRules from rule i on: the values the local variable
\* action takes, before rule i and after each rule from i on.
RECURSIVE testRulesLoop(_, _, _, _)
testRulesLoop(rs, feats, i, action) ==
    IF i > Len(rs) THEN <<action>>
    ELSE <<action>> \o
         testRulesLoop(rs, feats, i + 1,
                       IF testRule(rs[i], feats) THEN rs[i].Action ELSE action)

\* testRules: true for no rules, else whether the loop ends on "allow".
testRules(rs, feats) ==
    IF Len(rs) = 0 THEN TRUE
    ELSE LET trail == testRulesLoop(rs, feats, 1, "disallow")
         IN  trail[Len(trail)] = "allow"

NoVerdict == [called |-> FALSE, allowed |-> FALSE, matched |-> <<>>, trail |-> <<>>]

RulesInit ==
    /\ goos \in GOOS
    /\ goarch \in GOARCH
    /\ fs = <<>>
    /\ target = -1
    /\ pc = "idle"
    /\ call = NoCall
    /\ rules = <<>>
    /\ features \in FeatureMaps
    /\ verdict = NoVerdict
    /\ RestIdle

\* A call of testRules(rules, features); matched and trail record what
\* testRule returned for each rule and the running decision of the loop.
TestRules ==
    /\ ~verdict.called
    /\ verdict' = [called |-> TRUE,
                   allowed |-> testRules(rules, features),
                   matched |-> [i \in 1..Len(rules) |-> testRule(rules[i], features)],
                   trail |-> testRulesLoop(rules, features, 1, "disallow")]
    /\ UNCHANGED <<restVars, goos, goarch, fs, target, pc, call, rules, features>>

\* The manifest supplies one more rule for the next evaluation.
AppendRule(rule) ==
    /\ verdict.called
    /\ Len(rules) < MaxRules
    /\ rules' = Append(rules, rule)
    /\ verdict' = NoVerdict
    /\ UNCHANGED <<restVars, goos, goarch, fs, target, pc, call, features>>

RulesNext ==
    \/ TestRules
    \/ \E rule \in RuleSet : AppendRule(rule)

RulesSpec == RulesInit /\ [][RulesNext]_vars

\* ---- Properties ----

Returned(op) == call.op = op /\ call.done

\* The digest of data, under the algorithm the length of hash selects, is hash.
DigestMatches(data, hash) ==
    /\ data # -1
    /\ hash.len \in {Sha1HexLen, Sha256HexLen}
    /\ hash = (IF hash.len = Sha1HexLen THEN sha1Hex(data) ELSE sha256Hex(data))

\* I/O errors of the file system that the environment injected.
ReadFaults == {"open:eio", "read:eio"}

FsFaults == {"open:eio", "read:eio", "remove:eio", "mkdir:eio", "create:eio"}

HttpEvents == {"http", "http:error"}

OpenEvents == {"open", "open:eio", "open:enoent"}

MutationEvents == {"create", "create:eio", "write", "write:eio", "remove", "remove:eio"}

\* C1: cache hit: when a readable file exists at the path and its digest
\* equals the expected hash, downloadFileRaw returns success, issues no HTTP
\* request and neither creates, truncates nor deletes the file.
C1_CacheHit ==
    (/\ Returned("downloadFileRaw")
     /\ call.hash # NoHash
     /\ DigestMatches(call.preFile, call.hash)
     /\ ~HasAny(call.trace, ReadFaults))
        => /\ call.err = Nil
           /\ ~HasAny(call.trace, HttpEvents)
           /\ ~HasAny(call.trace, MutationEvents)
           /\ FileAt(fs, call.path) = call.preFile

\* C2: deletion on mismatch: for a readable file whose digest differs from
\* the expected hash, validateHash returns false, and when the deletion
\* succeeds it returns no error and no file exists at the path afterwards.
C2_DeletionOnMismatch ==
    (/\ Returned("validateHash")
     /\ call.preFile # -1
     /\ call.hash.len \in {Sha1HexLen, Sha256HexLen}
     /\ ~DigestMatches(call.preFile, call.hash)
     /\ ~HasAny(call.trace, ReadFaults))
        => /\ call.result = FALSE
           /\ ~Has(call.trace, "remove:eio")
                 => call.err = Nil /\ FileAt(fs, call.path) = -1

\* C3: a missing file is not an error: on every build, validateHash on a
\* path without a file returns false and no error, and the file is opened
\* for hashing only when it exists.
C3_MissingFileNotAnError ==
    Returned("validateHash")
        => /\ call.preFile = -1 => call.result = FALSE /\ call.err = Nil
           /\ HasAny(call.trace, OpenEvents) => call.preFile # -1

\* C4: validateHash is idempotent on a matching file: two consecutive calls
\* on a readable file whose digest equals the hash both return true, and
\* neither deletes or modifies the file.
C4_ValidateIdempotent ==
    [][(/\ Returned("validateHash")
        /\ call'.op = "validateHash" /\ call'.done
        /\ call'.seq # call.seq
        /\ call'.path = call.path /\ call'.hash = call.hash
        /\ DigestMatches(call.preFile, call.hash)
        /\ ~HasAny(call.trace, ReadFaults)
        /\ ~HasAny(call'.trace, ReadFaults))
           => /\ call.result /\ call'.result
              /\ call.err = Nil /\ call'.err = Nil
              /\ call'.preFile = call.preFile
              /\ FileAt(fs', call.path) = call.preFile
              /\ ~HasAny(call.trace, MutationEvents)
              /\ ~HasAny(call'.trace, MutationEvents)]_vars

\* C5: the hash length is checked before any I/O: with an expected hash of a
\* length other than 40 and 64, validateHash and downloadFileRaw fail with
\* the unknown-hash-size error without an existence check, open, create,
\* delete or HTTP request.
C5_HashLengthBeforeIO ==
    (/\ call.done
     /\ call.op \in {"validateHash", "downloadFileRaw"}
     /\ call.hash # NoHash
     /\ call.hash.len \notin {Sha1HexLen, Sha256HexLen})
        => /\ Has(call.err, "Unknown hash size")
           /\ call.trace = <<>>
           /\ FileAt(fs, call.path) = call.preFile

\* C6: post-download verification: when downloadFileRaw is called with an
\* expected hash and returns success, a file exists at the destination and
\* its digest equals the expected hash; when the digest of the downloaded
\* body differs from the expected hash, downloadFileRaw returns an error.
C6_PostDownloadVerification ==
    (Returned("downloadFileRaw") /\ call.hash # NoHash)
        => /\ call.err = Nil => DigestMatches(FileAt(fs, call.path), call.hash)
           /\ (call.body # -1 /\ ~DigestMatches(call.body, call.hash))
                 => call.err # Nil

\* A download with an expected hash went over the network and succeeded.
C6_Witness ==
    /\ Returned("downloadFileRaw")
    /\ call.hash # NoHash
    /\ call.err = Nil
    /\ Has(call.trace, "http")
    /\ call.body # -1

\* C7: on-disk invariant: once a downloadFileRaw call with a declared hash
\* has returned (also after a connection error, a non-2xx status, a transfer
\* error or a hash mismatch), a file that exists at the path has a digest
\* equal to the declared hash.
C7_OnDiskInvariant ==
    (/\ Returned("downloadFileRaw")
     /\ call.hash # NoHash
     /\ call.hash.len \in {Sha1HexLen, Sha256HexLen}
     /\ ~HasAny(call.trace, FsFaults)
     /\ FileAt(fs, call.path) # -1)
        => DigestMatches(FileAt(fs, call.path), call.hash)

\* Position of the first occurrence of event e in trace, 0 when absent.
FirstIndex(trace, e) ==
    IF Has(trace, e)
    THEN CHOOSE i \in DOMAIN trace :
             trace[i] = e /\ \A j \in 1..(i - 1) : trace[j] # e
    ELSE 0

\* C8: the JSON fetch checks the hash before parsing: with an expected hash
\* that the digest of the received body differs from, downloadJsonRaw
\* returns an error and leaves the target as it was; the body is parsed into
\* the target only after the hash comparison has passed.
C8_JsonHashBeforeParse ==
    (Returned("downloadJsonRaw") /\ call.hash # NoHash)
        => /\ (call.body # -1 /\ ~DigestMatches(call.body, call.hash))
                 => call.err # Nil /\ target = call.preTarget
           /\ target # call.preTarget => sha1Hex(call.body) = call.hash
           /\ \A e \in {"parse", "parse:error"} :
                 Has(call.trace, e)
                    => /\ sha1Hex(call.body) = call.hash
                       /\ Has(call.trace, "sha1")
                       /\ FirstIndex(call.trace, "sha1") < FirstIndex(call.trace, e)

\* A body that parses but does not match the expected hash was received,
\* and the target does not hold its document.
C8_Witness ==
    /\ Returned("downloadJsonRaw")
    /\ call.hash # NoHash
    /\ call.body # -1
    /\ UnmarshalOk(call.body)
    /\ ~DigestMatches(call.body, call.hash)
    /\ call.err # Nil
    /\ target # call.body

\* The match predicate of the specification: every required feature is in
\* the feature set with an equal value, the os arch is unset or the current
\* one, the os name is unset or the current one.
Matches(rule) ==
    /\ \A k \in DOMAIN rule.Features :
          k \in DOMAIN features /\ features[k] = rule.Features[k]
    /\ rule.Os.Arch = "" \/ rule.Os.Arch = goarch
    /\ rule.Os.Name = "" \/ rule.Os.Name = goos

\* Rule i matches and no later rule does.
LastMatch(i) ==
    /\ Matches(rules[i])
    /\ \A j \in (i + 1)..Len(rules) : ~Matches(rules[j])

\* C9: the rule ladder: testRules returns allow for the empty sequence;
\* otherwise allow exactly when some rule matches and the last matching rule
\* has action allow, and disallow when no rule matches or the last matching
\* rule has action disallow.
C9_RuleLadder ==
    verdict.called
        => /\ Len(rules) = 0 => verdict.allowed
           /\ Len(rules) > 0
                 => /\ verdict.allowed
                          <=> \E i \in 1..Len(rules) :
                                 LastMatch(i) /\ rules[i].Action = "allow"
                    /\ (\A i \in 1..Len(rules) : ~Matches(rules[i]))
                          => ~verdict.allowed
                    /\ \A i \in 1..Len(rules) :
                          (LastMatch(i) /\ rules[i].Action = "disallow")
                             => ~verdict.allowed

\* A matching disallow rule is followed by a matching allow rule, and the
\* later one decides.
C9_Witness ==
    /\ verdict.called
    /\ Len(rules) = 2
    /\ Matches(rules[1]) /\ rules[1].Action = "disallow"
    /\ Matches(rules[2]) /\ rules[2].Action = "allow"
    /\ verdict.allowed

RequiresAbsent(rule) == \E k \in DOMAIN rule.Features : k \notin DOMAIN features

\* C10: the match predicate: testRule returns true iff every required
\* feature is in the feature set with an equal value and the os arch and os
\* name are unset or the current ones; a rule requiring a feature absent
\* from the feature set never matches and leaves the running decision of
\* testRules as it was.
C10_RuleMatch ==
    verdict.called
        => \A i \in 1..Len(rules) :
              /\ verdict.matched[i] <=> Matches(rules[i])
              /\ RequiresAbsent(rules[i])
                    => /\ ~verdict.matched[i]
                       /\ verdict.trail[i + 1] = verdict.trail[i]

\* After a matching allow rule, a rule requiring an absent feature (with the
\* opposite action and no other condition) leaves the decision at allow.
C10_Witness ==
    /\ verdict.called
    /\ Len(rules) = 2
    /\ verdict.matched[1] /\ rules[1].Action = "allow"
    /\ RequiresAbsent(rules[2]) /\ rules[2].Action = "disallow"
    /\ rules[2].Os.Arch = "" /\ rules[2].Os.Name = ""
    /\ verdict.trail[2] = "allow" /\ verdict.trail[3] = "allow"
    /\ verdict.allowed

\* C20: a failed download leaves no file: when downloadFileRaw returns an
\* error because the transfer of the body failed, or because the downloaded
\* content did not match the expected hash, no file exists at the
\* destination afterwards.
C20_FailedDownloadLeavesNoFile ==
    (/\ Returned("downloadFileRaw")
     /\ call.err # Nil
     /\ ~HasAny(call.trace, FsFaults)
     /\ \/ Has(call.trace, "write:eio")
        \/ /\ call.body # -1
           /\ call.hash # NoHash
           /\ call.hash.len \in {Sha1HexLen, Sha256HexLen}
           /\ ~DigestMatches(call.body, call.hash))
        => FileAt(fs, call.path) = -1

\* ---- The batch downloads: downloadLibraries and downloadAssets ----

\* Bounds: the libraries of a manifest and the objects of an asset index.
MaxLibs == 2

MaxObjects == 3

\* Artifact paths of libraries (an artifact has one path and one hash).
Artifacts == {"a.jar", "b.jar"}

\* Hashes of asset objects; the object file is named after its hash.
AssetHashes == {"h1", "h2", "h3"}

\* The features main passes to downloadLibraries.
MainFeatures == [k \in FeatureKeys |-> FALSE]

\* Rules of a library: none, or allowed on windows alone.
LibRuleLists ==
    {<<>>,
     <<[Action |-> "allow", Features |-> <<>>,
        Os |-> [Arch |-> "", Name |-> "windows"]]>>}

Libraries == [Path : Artifacts, Rules : LibRuleLists]

LibrarySeqs == UNION {[1..n -> Libraries] : n \in 0..MaxLibs}

\* AssetManifest.Objects: object names (numbers) to the hash of the object.
ObjectMaps == UNION {[1..n -> AssetHashes] : n \in 0..MaxObjects}

UnitIds == 1..(IF MaxLibs > MaxObjects THEN MaxLibs ELSE MaxObjects)

\* A goroutine of a batch: not started, in downloadFile, blocked on the
\* channel send with its outcome, or finished.
IdleUnit == [st |-> "idle", path |-> "", out |-> Nil]

BatchInit ==
    /\ goos \in GOOS
    /\ goarch = "amd64"
    /\ fs = <<>>
    /\ target = -1
    /\ pc = "idle"
    /\ call = NoCall
    /\ rules = <<>>
    /\ features = MainFeatures
    /\ verdict = NoVerdict
    /\ batch \in {[kind |-> "libraries", libraries |-> l, objects |-> <<>>] :
                     l \in LibrarySeqs}
                 \cup {[kind |-> "assets", libraries |-> <<>>, objects |-> o] :
                          o \in ObjectMaps}
    /\ orch = NoOrch
    /\ units = [u \in UnitIds |-> IdleUnit]
    /\ main = NoMain
    /\ ext = NoExt
    /\ jdk = NoJdk
    /\ wj = NoWrite

batchFrame == <<goos, goarch, fs, target, pc, call, rules, features, verdict,
                batch, main, ext, jdk, wj>>

\* downloadLibraries, lines 463-469: no libraries, nothing to do.
DownloadLibrariesBegin ==
    /\ batch.kind = "libraries"
    /\ orch.pc = "idle"
    /\ IF Len(batch.libraries) = 0
       THEN orch' = [orch EXCEPT !.pc = "done", !.ret = <<>>]
       ELSE orch' = [orch EXCEPT !.pc = "lib_loop", !.i = 1]
    /\ UNCHANGED <<units, batchFrame>>

DownloadLibrariesLoopPrepend ==
    /\ orch.pc = "lib_loop"
    /\ IF orch.i > Len(batch.libraries)
       THEN /\ orch' = [orch EXCEPT !.pc = "collect",
                           !.length = Len(orch.classpath), !.received = 0]
            /\ units' = units
       ELSE LET library == batch.libraries[orch.i]
            IN  IF ~testRules(library.Rules, features)
                THEN /\ orch' = [orch EXCEPT !.i = @ + 1]
                     /\ units' = units
                ELSE /\ orch' = [orch EXCEPT !.i = @ + 1,
                                    !.classpath = <<library.Path>> \o @]
                     /\ units' = [units EXCEPT ![orch.i] =
                                     [st |-> "running", path |-> library.Path,
                                      out |-> Nil]]
    /\ UNCHANGED batchFrame

\* downloadLibraries, lines 470-487: one iteration of the loop over the
\* libraries (a goroutine is started for every library the rules allow), or
\* its end.
DownloadLibrariesLoop ==
    /\ orch.pc = "lib_loop"
    /\ IF orch.i > Len(batch.libraries)
       THEN /\ orch' = [orch EXCEPT !.pc = "collect",
                           !.length = Len(orch.classpath), !.received = 0]
            /\ units' = units
       ELSE LET library == batch.libraries[orch.i]
            IN  IF ~testRules(library.Rules, features)
                THEN /\ orch' = [orch EXCEPT !.i = @ + 1]
                     /\ units' = units
                ELSE /\ orch' = [orch EXCEPT !.i = @ + 1,
                                    !.classpath = Append(@, library.Path)]
                     /\ units' = [units EXCEPT ![orch.i] =
                                     [st |-> "running", path |-> library.Path,
                                      out |-> Nil]]
    /\ UNCHANGED batchFrame

\* The step of downloadAssets that can fail before the batch: the download
\* of the index, its opening, its reading, its parsing ("ok": none fails).
IndexOutcomes == {"ok", "download", "open", "read", "parse"}

\* The error of the index step; errors are named by the call that raised
\* them, 0 for the index and u for the goroutine u.
IndexError == <<0>>

\* downloadAssets, lines 415-439: the asset index is fetched, opened, read
\* and parsed (each failure returns at once); then the channel, the empty
\* dedup map and the start of the range over the objects.
DownloadAssetsBegin(outcome) ==
    /\ batch.kind = "assets"
    /\ orch.pc = "idle"
    /\ IF outcome = "ok"
       THEN orch' = [orch EXCEPT !.pc = "asset_loop", !.index = outcome,
                                 !.remaining = DOMAIN batch.objects]
       ELSE orch' = [orch EXCEPT !.pc = "done", !.index = outcome,
                                 !.err = IndexError]
    /\ UNCHANGED <<units, batchFrame>>

DownloadAssetsLoopNoDedup(key) ==
    /\ orch.pc = "asset_loop"
    /\ key \in orch.remaining
    /\ LET object == batch.objects[key]
       IN  /\ orch' = [orch EXCEPT !.remaining = @ \ {key},
                                   !.downloaded = @ \cup {object}]
           /\ units' = [units EXCEPT ![key] =
                           [st |-> "running", path |-> object, out |-> Nil]]
    /\ UNCHANGED batchFrame

\* downloadAssets, lines 439-451: one iteration of the range over the
\* objects, which visits the keys in any order.
DownloadAssetsLoop(key) ==
    /\ orch.pc = "asset_loop"
    /\ key \in orch.remaining
    /\ LET object == batch.objects[key]
       IN  IF object \in orch.downloaded
           THEN /\ orch' = [orch EXCEPT !.remaining = @ \ {key}]
                /\ units' = units
           ELSE /\ orch' = [orch EXCEPT !.remaining = @ \ {key},
                                        !.downloaded = @ \cup {object}]
                /\ units' = [units EXCEPT ![key] =
                                [st |-> "running", path |-> object, out |-> Nil]]
    /\ UNCHANGED batchFrame

\* downloadAssets, lines 453-454: the range is over.
DownloadAssetsLoopEnd ==
    /\ orch.pc = "asset_loop"
    /\ orch.remaining = {}
    /\ orch' = [orch EXCEPT !.pc = "collect",
                            !.length = Cardinality(orch.downloaded),
                            !.received = 0]
    /\ UNCHANGED <<units, batchFrame>>

UnitDownloadFileUnmarks(u, ok) ==
    /\ units[u].st = "running"
    /\ units' = [units EXCEPT ![u].st = "sending",
                              ![u].out = IF ok THEN Nil ELSE <<u>>]
    /\ orch' = [orch EXCEPT !.downloaded =
                    IF ok THEN @ ELSE @ \ {units[u].path}]
    /\ UNCHANGED batchFrame

\* A goroutine: downloadFile returns (nil, or the error of this unit) and
\* the goroutine offers it on the unbuffered channel.
UnitDownloadFile(u, ok) ==
    /\ units[u].st = "running"
    /\ units' = [units EXCEPT ![u].st = "sending",
                              ![u].out = IF ok THEN Nil ELSE <<u>>]
    /\ UNCHANGED <<orch, batchFrame>>

\* The collecting loop (lines 455-457 and 488-490): one receive, which
\* completes the send of a goroutine.
Collect(u) ==
    /\ orch.pc = "collect"
    /\ orch.received < orch.length
    /\ units[u].st = "sending"
    /\ orch' = [orch EXCEPT !.received = @ + 1,
                            !.err = Join(@, units[u].out)]
    /\ units' = [units EXCEPT ![u].st = "done"]
    /\ UNCHANGED batchFrame

BatchReturnFailFast ==
    /\ orch.pc = "collect"
    /\ orch.received = orch.length \/ orch.err # Nil
    /\ orch' = [orch EXCEPT !.pc = "done",
                            !.ret = IF batch.kind = "libraries" /\ orch.err = Nil
                                    THEN orch.classpath ELSE <<>>]
    /\ UNCHANGED <<units, batchFrame>>

\* The return of the batch call (lines 459 and 491-494).
BatchReturn ==
    /\ orch.pc = "collect"
    /\ orch.received = orch.length
    /\ orch' = [orch EXCEPT !.pc = "done",
                            !.ret = IF batch.kind = "libraries" /\ orch.err = Nil
                                    THEN orch.classpath ELSE <<>>]
    /\ UNCHANGED <<units, batchFrame>>

BatchNext ==
    \/ DownloadLibrariesBegin
    \/ DownloadLibrariesLoop
    \/ \E outcome \in IndexOutcomes : DownloadAssetsBegin(outcome)
    \/ \E key \in UnitIds : DownloadAssetsLoop(key)
    \/ DownloadAssetsLoopEnd
    \/ \E u \in UnitIds, ok \in BOOLEAN : UnitDownloadFile(u, ok)
    \/ \E u \in UnitIds : Collect(u)
    \/ BatchReturn

BatchSpec == BatchInit /\ [][BatchNext]_vars

\* Every goroutine and the calling goroutine keep running: downloadFile
\* terminates and the scheduler is fair.
BatchFairness ==
    /\ WF_vars(DownloadLibrariesBegin)
    /\ WF_vars(DownloadLibrariesLoop)
    /\ WF_vars(\E outcome \in IndexOutcomes : DownloadAssetsBegin(outcome))
    /\ WF_vars(\E key \in UnitIds : DownloadAssetsLoop(key))
    /\ WF_vars(DownloadAssetsLoopEnd)
    /\ \A u \in UnitIds : WF_vars(\E ok \in BOOLEAN : UnitDownloadFile(u, ok))
    /\ WF_vars(\E u \in UnitIds : Collect(u))
    /\ WF_vars(BatchReturn)

BatchLiveSpec == BatchSpec /\ BatchFairness

\* The goroutines started so far, and those whose downloadFile failed.
Launched == {u \in UnitIds : units[u].st # "idle"}

Failed == {u \in Launched : units[u].out # Nil}

Count(seq, x) == Cardinality({i \in 1..Len(seq) : seq[i] = x})

\* The batch phase of the call was entered (for downloadAssets: the index
\* was fetched and parsed).
BatchReturned == orch.pc = "done" /\ orch.index \in {"", "ok"}

\* C11: non-fail-fast aggregation: a batch call returns only after every
\* launched unit has reported its outcome, its error is nil iff no unit
\* failed, and otherwise it holds the error of every failed unit exactly once
\* and nothing else.
C11_Aggregation ==
    BatchReturned =>
       /\ \A u \in Launched : units[u].st = "done"
       /\ orch.received = Cardinality(Launched)
       /\ (orch.err = Nil) <=> (Failed = {})
       /\ Len(orch.err) = Cardinality(Failed)
       /\ \A u \in UnitIds : Count(orch.err, u) = IF u \in Failed THEN 1 ELSE 0

C11_Witness ==
    /\ BatchReturned
    /\ Cardinality(Launched) >= 3
    /\ Cardinality(Failed) = 2

\* The distinct hashes of the objects of the asset index.
DistinctHashes == {batch.objects[k] : k \in DOMAIN batch.objects}

\* C12: asset dedup: downloadAssets never starts two fetches of one hash;
\* once its loop is over, exactly one fetch per distinct object hash was
\* started, in whatever order the objects were visited, and the collector
\* waits for exactly that number of outcomes.
C12_AssetDedup ==
    (batch.kind = "assets") =>
       /\ \A u, v \in Launched : units[u].path = units[v].path => u = v
       /\ orch.pc \in {"collect", "done"} /\ orch.index = "ok" =>
             /\ {units[u].path : u \in Launched} = DistinctHashes
             /\ Cardinality(Launched) = Cardinality(DistinctHashes)
             /\ orch.length = Cardinality(DistinctHashes)

C12_Witness ==
    /\ batch.kind = "assets"
    /\ orch.pc = "done"
    /\ Cardinality(DOMAIN batch.objects) = 3
    /\ Cardinality(DistinctHashes) = 2
    /\ Cardinality(Launched) = 2
    /\ orch.received = 2

\* The paths of the libraries the rules allow, in the order of the input.
AllowedPaths ==
    LET allowed == SelectSeq(batch.libraries,
                             LAMBDA l : testRules(l.Rules, features))
    IN  [i \in 1..Len(allowed) |-> allowed[i].Path]

\* C13: classpath contents and order: when every started fetch succeeded,
\* downloadLibraries returns the paths of the allowed libraries in the order
\* of the input, whatever the order of completion; a library the rules
\* disallow is never fetched.
C13_Classpath ==
    (batch.kind = "libraries") =>
       /\ \A i \in Launched : testRules(batch.libraries[i].Rules, features)
       /\ orch.pc = "done" /\ orch.err = Nil =>
             /\ orch.ret = AllowedPaths
             /\ \A i \in 1..Len(batch.libraries) :
                   testRules(batch.libraries[i].Rules, features) <=> i \in Launched

C13_Witness ==
    /\ batch.kind = "libraries"
    /\ orch.pc = "done"
    /\ orch.err = Nil
    /\ orch.ret = <<"b.jar", "a.jar">>

\* C17: library dedup: no two goroutines of downloadLibraries are inside
\* downloadFile for the same destination path at the same time.
C17_LibraryDedup ==
    (batch.kind = "libraries") =>
       \A u, v \in UnitIds :
          /\ units[u].st = "running"
          /\ units[v].st = "running"
          /\ units[u].path = units[v].path
          => u = v

C19_CollectorTermination ==
    /\ <>(orch.pc = "done")
    /\ [](orch.pc = "done" =>
             /\ \A u \in Launched : units[u].st = "done"
             /\ orch.received = Cardinality(Launched))

C19_Witness ==
    /\ batch.kind = "libraries"
    /\ orch.pc = "done"
    /\ Cardinality(Launched) = 2
    /\ \A u \in Launched : units[u].st = "done"

\* ---- main ----

\* Bound: the arguments of each list (jvm, game) of a manifest.
MaxArgs == 2

\* An argument string is a sequence of parts: literal text, or a placeholder
\* "${name}".
Lit(text) == [t |-> "lit", s |-> text]

Var(name) == [t |-> "var", s |-> name]

ArgStrings == {<<Var("classpath")>>, <<Var("nope"), Var("classpath")>>}

Arguments == [Rules : LibRuleLists, Value : {<<a>> : a \in ArgStrings}]

ArgumentSeqs == UNION {[1..n -> Arguments] : n \in 0..MaxArgs}

\* The classpaths downloadLibraries can return to main.
Classpaths == {<<>>, <<"a.jar">>}

\* The steps of main that can fail, in the order of the code.
AcquisitionSteps ==
    <<"getwd", "versionManifest", "manifest", "libraries", "assets", "client">>

StepAfter(step) ==
    LET i == CHOOSE k \in 1..Len(AcquisitionSteps) : AcquisitionSteps[k] = step
    IN  IF i = Len(AcquisitionSteps) THEN "jvm" ELSE AcquisitionSteps[i + 1]

\* The entries of environment the model's placeholders can name.
Environment(cp) == [name \in {"classpath"} |-> cp]

\* jankyFormat: placeholders are replaced from the left until one is not in
\* the environment; the rest of the string is left as it is.
RECURSIVE jankyFormat(_, _)
jankyFormat(argument, environment) ==
    IF argument = <<>>
    THEN <<>>
    ELSE IF Head(argument).t = "lit"
         THEN <<Head(argument)>> \o jankyFormat(Tail(argument), environment)
         ELSE IF Head(argument).s \in DOMAIN environment
              THEN <<Lit(environment[Head(argument).s])>>
                      \o jankyFormat(Tail(argument), environment)
              ELSE argument

MainInit ==
    /\ goos \in GOOS
    /\ goarch = "amd64"
    /\ fs = <<>>
    /\ target = -1
    /\ pc = "idle"
    /\ call = NoCall
    /\ rules = <<>>
    /\ features = MainFeatures
    /\ verdict = NoVerdict
    /\ batch = NoBatch
    /\ orch = NoOrch
    /\ units = NoUnits
    /\ ext = NoExt
    /\ jdk = NoJdk
    /\ wj = NoWrite
    /\ \E jvm \in ArgumentSeqs, game \in ArgumentSeqs :
          main = [pc |-> "getwd", Jvm |-> jvm, Game |-> game, ok |-> <<>>,
                  failed |-> "", classpath |-> <<>>, command |-> <<>>, i |-> 1,
                  started |-> FALSE]

mainFrame == <<goos, goarch, fs, target, pc, call, rules, features, verdict,
               batch, orch, units, ext, jdk, wj>>

\* main, lines 308-354: one call of the sequence os.Getwd,
\* downloadVersionManifest, downloadManifest, downloadLibraries,
\* downloadAssets, downloadFileRaw (client jar); an error prints and returns.
MainAcquire(ok, classpath) ==
    /\ main.pc \in {AcquisitionSteps[k] : k \in 1..Len(AcquisitionSteps)}
    /\ IF ok
       THEN main' = [main EXCEPT !.pc = StepAfter(main.pc),
                                 !.ok = Append(@, main.pc),
                                 !.classpath = IF main.pc = "libraries"
                                               THEN classpath ELSE @]
       ELSE main' = [main EXCEPT !.pc = "exit", !.failed = main.pc]
    /\ UNCHANGED mainFrame

\* The text of the class path: the jar, then every library after a ":".
ClassPathText == <<"client.jar">> \o main.classpath

\* main, lines 387-396: one jvm argument (appended when its rules allow
\* it), or the end of the list and the main class.
MainJvmArgument ==
    /\ main.pc = "jvm"
    /\ IF main.i > Len(main.Jvm)
       THEN main' = [main EXCEPT !.pc = "game", !.i = 1,
                                 !.command = Append(@, <<Lit("MainClass")>>)]
       ELSE LET argument == main.Jvm[main.i]
            IN  main' = [main EXCEPT !.i = @ + 1,
                    !.command =
                       IF testRules(argument.Rules, features)
                       THEN @ \o [o \in 1..Len(argument.Value) |->
                                    jankyFormat(argument.Value[o],
                                                Environment(ClassPathText))]
                       ELSE @]
    /\ UNCHANGED mainFrame

\* main, lines 398-405: one game argument, or the end of the list.
MainGameArgument ==
    /\ main.pc = "game"
    /\ IF main.i > Len(main.Game)
       THEN main' = [main EXCEPT !.pc = "start"]
       ELSE LET argument == main.Game[main.i]
            IN  main' = [main EXCEPT !.i = @ + 1,
                    !.command =
                       IF testRules(argument.Rules, features)
                       THEN @ \o [o \in 1..Len(argument.Value) |->
                                    jankyFormat(argument.Value[o],
                                                Environment(ClassPathText))]
                       ELSE @]
    /\ UNCHANGED mainFrame

\* main, lines 407-411: the java of a fixed path is started and waited for.
MainStart ==
    /\ main.pc = "start"
    /\ main' = [main EXCEPT !.pc = "exit", !.started = TRUE]
    /\ UNCHANGED mainFrame

MainNext ==
    \/ \E ok \in BOOLEAN, classpath \in Classpaths : MainAcquire(ok, classpath)
    \/ MainJvmArgument
    \/ MainGameArgument
    \/ MainStart

MainSpec == MainInit /\ [][MainNext]_vars

\* The steps that reported success so far.
Succeeded == {main.ok[k] : k \in 1..Len(main.ok)}

\* An error of a step ends main: the steps before it succeeded, no later one
\* ran and the process is not started.
MainGated ==
    /\ main.failed # "" => main.pc = "exit" /\ ~main.started
                           /\ main.failed \notin Succeeded
                           /\ StepAfter(main.failed) \notin Succeeded
    /\ main.started =>
          /\ main.failed = ""
          /\ {"versionManifest", "manifest", "libraries", "assets", "client"}
                \subseteq Succeeded

\* C16: launch gating: the process is started only after the acquisition of
\* the libraries, of the assets and of the JDK all reported success, and an
\* error of any acquisition step ends main with no later step and no start.
C16_LaunchGating ==
    /\ MainGated
    /\ main.started => "jdk" \in Succeeded

\* ---- Archive extraction: extractTar and extractZip ----

\* Bound: the entries of an archive.
MaxEntries == 2

\* Entry names, relative to the destination; "d/f" lies in directory "d".
Names == {"d", "d/f", "l", "../e"}

\* The directory a name lies in: "" is the destination itself and ".." the
\* directory above it.
Parent(name) ==
    IF name = "d/f" THEN "d" ELSE IF name = "../e" THEN ".." ELSE ""

\* destination + name stays under the destination.
UnderRoot(name) == name # "../e"

\* Permission bits as sets of bits: 0644 and 0664.
Mode0644 == {"ur", "uw", "gr", "or"}

Mode0664 == Mode0644 \cup {"gw"}

\* os.ModePerm, the mode createParents asks for.
ModePerm == {"ur", "uw", "ux", "gr", "gw", "gx", "or", "ow", "ox"}

\* The umask of the process: 0 or 022.
Umasks == {{}, {"gw", "ow"}}

\* Entry kinds: directory, regular file, symbolic link, and a kind neither
\* function has a case for (a fifo).
Kinds == {"dir", "reg", "symlink", "fifo"}

Entries ==
    {[Name |-> n, Kind |-> k, Mode |-> m, Content |-> 1, Linkname |-> "t"] :
        n \in Names, k \in Kinds \ {"reg"}, m \in {ModePerm}}
    \cup
    {[Name |-> n, Kind |-> "reg", Mode |-> m, Content |-> 1, Linkname |-> ""] :
        n \in Names, m \in {Mode0644, Mode0664}}

\* Archives: sequences of entries with distinct names.
Archives ==
    {a \in UNION {[1..n -> Entries] : n \in 0..MaxEntries} :
        \A i, j \in DOMAIN a : a[i].Name = a[j].Name => i = j}

Formats == {"tar", "zip"}

Source(format) == IF format = "tar" THEN "jdk.tar.gz" ELSE "jdk.zip"

\* A node of the destination tree; kind "none": nothing at that name.
NoNode == [kind |-> "none", mode |-> {}, content |-> -1, target |-> ""]

EmptyTree == [n \in Names |-> NoNode]

IsDir(tree, name) == name \in {"", ".."} \/ tree[name].kind = "dir"

\* os.MkdirAll(path, os.ModePerm): the directory and its missing parents are
\* created with the mode the umask leaves; a non-directory on the way fails.
RECURSIVE mkdirAll(_, _, _)
mkdirAll(tree, name, umask) ==
    IF IsDir(tree, name)
    THEN [ok |-> TRUE, tree |-> tree]
    ELSE IF tree[name].kind # "none"
         THEN [ok |-> FALSE, tree |-> tree]
         ELSE LET up == mkdirAll(tree, Parent(name), umask)
              IN  IF ~up.ok
                  THEN up
                  ELSE [ok |-> TRUE,
                        tree |-> [up.tree EXCEPT ![name] =
                                    [NoNode EXCEPT !.kind = "dir",
                                                   !.mode = ModePerm \ umask]]]

\* os.OpenFile(name, O_RDWR|O_CREATE|O_TRUNC, perms): the parent must be a
\* directory; a new file gets the mode the umask leaves, an existing one is
\* emptied and keeps its mode.
createFileWithPerms(tree, name, perms, umask) ==
    IF ~IsDir(tree, Parent(name)) \/ tree[name].kind \in {"dir", "symlink"}
    THEN [ok |-> FALSE, tree |-> tree]
    ELSE [ok |-> TRUE,
          tree |-> [tree EXCEPT ![name] =
                      [kind |-> "reg",
                       mode |-> IF tree[name].kind = "reg" THEN tree[name].mode
                                ELSE perms \ umask,
                       content |-> 0, target |-> ""]]]

\* os.Symlink(target, path): the parent must be a directory and the name
\* free.
createLink(tree, name, linkname) ==
    IF ~IsDir(tree, Parent(name)) \/ tree[name].kind # "none"
    THEN [ok |-> FALSE, tree |-> tree]
    ELSE [ok |-> TRUE,
          tree |-> [tree EXCEPT ![name] =
                      [NoNode EXCEPT !.kind = "symlink", !.target = linkname]]]

\* What the environment can make fail in one step.
ExtractFaults == {"none", "next", "create", "copy"}

ExtractInit ==
    /\ goos = "linux"
    /\ goarch = "amd64"
    /\ fs = <<>>
    /\ target = -1
    /\ pc = "idle"
    /\ call = NoCall
    /\ rules = <<>>
    /\ features = <<>>
    /\ verdict = NoVerdict
    /\ batch = NoBatch
    /\ orch = NoOrch
    /\ units = NoUnits
    /\ main = NoMain
    /\ jdk = NoJdk
    /\ wj = NoWrite
    /\ \E format \in Formats, archive \in Archives, umask \in Umasks :
          ext = [pc |-> "open", format |-> format, source |-> Source(format),
                 entries |-> archive, umask |-> umask, i |-> 1,
                 met |-> 0, tree |-> EmptyTree, err |-> Nil]

extFrame == <<goos, goarch, fs, target, pc, call, rules, features, verdict,
              batch, orch, units, main, jdk, wj>>

Fail(message, cause) == <<message, ext.source, cause>>

\* What opening the archive can end in; only extractTar decompresses.
OpenOutcomes == {"ok", "open", "decompress"}

\* extractTar lines 79-91 and extractZip lines 149-155: the archive is
\* opened (and, for tar, its gzip header is read).
ExtractOpen(outcome) ==
    /\ ext.pc = "open"
    /\ outcome = "decompress" => ext.format = "tar"
    /\ IF outcome = "ok"
       THEN ext' = [ext EXCEPT !.pc = "loop"]
       ELSE ext' = [ext EXCEPT !.pc = "done",
                               !.err = Fail("failed to " \o outcome, outcome)]
    /\ UNCHANGED extFrame

WriteEntryRollback(entry, fault) ==
    LET made == createFileWithPerms(ext.tree, entry.Name, entry.Mode, ext.umask)
    IN  IF fault \in {"create", "copy"} \/ ~made.ok
        THEN [ext EXCEPT !.pc = "done", !.met = ext.i, !.tree = EmptyTree,
                         !.err = Fail("failed to extract", "create")]
        ELSE [ext EXCEPT !.i = @ + 1, !.met = ext.i,
                         !.tree = [made.tree EXCEPT
                                     ![entry.Name].content = entry.Content]]

\* The regular-file branch of both functions: the file is created with the
\* recorded mode and the stream of the entry is copied into it.  (met: the
\* number of entries whose header the loop has read.)
WriteEntry(entry, fault) ==
    LET made == createFileWithPerms(ext.tree, entry.Name, entry.Mode, ext.umask)
    IN  IF fault = "create" \/ ~made.ok
        THEN [ext EXCEPT !.pc = "done", !.met = ext.i,
                         !.err = Fail("failed to extract", "create")]
        ELSE IF fault = "copy"
             THEN [ext EXCEPT !.pc = "done", !.met = ext.i, !.tree = made.tree,
                              !.err = Fail("failed to extract", "copy")]
             ELSE [ext EXCEPT !.i = @ + 1, !.met = ext.i,
                              !.tree = [made.tree EXCEPT
                                          ![entry.Name].content = entry.Content]]

\* The directory branch of both functions.
MakeDirEntry(entry, fault) ==
    LET made == mkdirAll(ext.tree, entry.Name, ext.umask)
    IN  IF fault = "create" \/ ~made.ok
        THEN [ext EXCEPT !.pc = "done", !.met = ext.i, !.tree = made.tree,
                         !.err = Fail("failed to extract", "mkdir")]
        ELSE [ext EXCEPT !.i = @ + 1, !.met = ext.i, !.tree = made.tree]

\* extractTar lines 92-145: one turn of the loop.
ExtractTarEntry(fault) ==
    /\ ext.pc = "loop"
    /\ ext.format = "tar"
    /\ IF fault = "next"
       THEN ext' = [ext EXCEPT !.pc = "done",
                               !.err = Fail("failed to extract", "next")]
       ELSE IF ext.i > Len(ext.entries)
       THEN ext' = [ext EXCEPT !.pc = "done"]
       ELSE LET header == ext.entries[ext.i]
            IN  CASE header.Kind = "dir" ->
                       ext' = MakeDirEntry(header, fault)
                  [] header.Kind = "reg" ->
                       ext' = WriteEntry(header, fault)
                  [] header.Kind = "symlink" ->
                       LET made == createLink(ext.tree, header.Name,
                                              header.Linkname)
                       IN  IF fault = "create" \/ ~made.ok
                           THEN ext' = [ext EXCEPT !.pc = "done",
                                   !.met = ext.i,
                                   !.err = Fail("failed to extract", "symlink")]
                           ELSE ext' = [ext EXCEPT !.i = @ + 1, !.met = ext.i,
                                                   !.tree = made.tree]
                  [] OTHER ->
                       ext' = [ext EXCEPT !.pc = "done", !.met = ext.i,
                                  !.err = <<"don't know how to handle",
                                            header.Name, ext.source>>]
    /\ UNCHANGED extFrame

\* extractZip lines 157-192: one turn of the loop; whatever is not a
\* directory is written as a regular file.
ExtractZipEntry(fault) ==
    /\ ext.pc = "loop"
    /\ ext.format = "zip"
    /\ fault # "next"
    /\ IF ext.i > Len(ext.entries)
       THEN ext' = [ext EXCEPT !.pc = "done"]
       ELSE LET file == ext.entries[ext.i]
            IN  IF file.Kind = "dir"
                THEN ext' = MakeDirEntry(file, fault)
                ELSE ext' = WriteEntry(file, fault)
    /\ UNCHANGED extFrame

ExtractNext ==
    \/ \E outcome \in OpenOutcomes : ExtractOpen(outcome)
    \/ \E fault \in ExtractFaults : ExtractTarEntry(fault)
    \/ \E fault \in ExtractFaults : ExtractZipEntry(fault)

ExtractSpec == ExtractInit /\ [][ExtractNext]_vars

\* The entry kinds the claims count as supported by a format.
Supported(format) ==
    IF format = "tar" THEN {"dir", "reg", "symlink"} ELSE {"dir", "reg"}

\* The entry exists in the tree as the archive records it.
Reproduced(entry) ==
    LET node == ext.tree[entry.Name]
    IN  /\ node.kind = entry.Kind
        /\ entry.Kind = "reg" =>
              node.mode = entry.Mode /\ node.content = entry.Content
        /\ entry.Kind = "symlink" => node.target = entry.Linkname

\* C14: extraction reproduces the archive: after a successful extraction of
\* an archive of directories, regular files and (tar) symbolic links, every
\* entry exists at its path with its kind, every regular file with the
\* recorded permission bits and content, every link with its target.
C14_ExtractionReproduces ==
    (/\ ext.pc = "done"
     /\ ext.err = Nil
     /\ \A i \in DOMAIN ext.entries :
           ext.entries[i].Kind \in Supported(ext.format))
       => \A i \in DOMAIN ext.entries : Reproduced(ext.entries[i])

\* C15: unsupported entry kinds are fatal: the step in which the loop meets
\* an entry that is neither a directory, a regular file nor (tar) a symbolic
\* link returns an error naming the entry and the archive and leaves the
\* destination as it was.
C15_UnsupportedKindsFatal ==
    [][(/\ ext.pc = "loop"
        /\ ext.i \in DOMAIN ext.entries
        /\ ext'.met = ext.i
        /\ ext.entries[ext.i].Kind \notin Supported(ext.format))
          => /\ ext'.pc = "done"
             /\ Has(ext'.err, ext.entries[ext.i].Name)
             /\ Has(ext'.err, ext.source)
             /\ ext'.tree = ext.tree]_vars

\* C21: the JSON fetch selects the digest by the length of the hash: a body
\* that was read is accepted and parsed exactly when its digest under the
\* algorithm of that length (40: SHA-1, 64: SHA-256, else none) equals the
\* expected hash and it parses.
C21_JsonDigestByLength ==
    (/\ Returned("downloadJsonRaw")
     /\ call.hash # NoHash
     /\ call.body # -1)
        => ((call.err = Nil /\ target = call.body)
               <=> (DigestMatches(call.body, call.hash) /\ UnmarshalOk(call.body)))

\* C22: a deletion failure is surfaced: whenever a removal failed during a
\* call, the call returns an error that reports the deletion; after a failed
\* removal in the cache check of downloadFileRaw no HTTP request is made.
C22_DeletionFailureSurfaced ==
    (/\ call.done
     /\ call.op \in {"validateHash", "downloadFileRaw", "downloadFile"}
     /\ Has(call.trace, "remove:eio"))
        => /\ Has(call.err, "could not delete corrupted file")
           /\ call.result = FALSE
           /\ ~Has(call.trace, "create") => ~HasAny(call.trace, HttpEvents)

\* C25: an absent hash means no verification: a downloadable whose hash
\* field is empty is transferred by downloadFile without any validation step
\* and the call succeeds when the transfer succeeds.
C25_AbsentHashNoVerification ==
    (/\ Returned("downloadFile")
     /\ call.hash.len = 0)
        => /\ ~Has(call.trace, "stat")
           /\ ~HasAny(call.trace, OpenEvents)
           /\ Has(call.trace, "write") => call.err = Nil

\* The step leaves what is on disk as it is.
KeepsExtracted ==
    \A n \in Names : ext.tree[n].kind # "none" => ext'.tree[n] = ext.tree[n]

\* C23: extraction is sequential and aborts without rollback: the loop
\* meets the entries one by one in archive order; a step that fails ends the
\* call with an error holding the archive path and leaves everything on disk
\* as it was; no later entry is met; the end of the archive ends the call
\* with success.
C23_SequentialNoRollback ==
    [][ext.pc = "loop" =>
          /\ ext'.met \in {ext.met, ext.i}
          /\ ext'.met = ext.i => ext.i = ext.met + 1 /\ ext.i \in DOMAIN ext.entries
          /\ ext'.err # Nil =>
                /\ ext'.pc = "done"
                /\ Has(ext'.err, ext.source)
                /\ KeepsExtracted
          /\ ext'.err = Nil =>
                IF ext.i > Len(ext.entries)
                THEN ext'.pc = "done" /\ ext'.tree = ext.tree
                ELSE ext'.pc = "loop" /\ ext'.i = ext.i + 1 /\ KeepsExtracted]_vars

C23_Witness ==
    /\ ext.pc = "done"
    /\ ext.err # Nil
    /\ ext.met = 2
    /\ ext.entries[1].Kind = "reg"
    /\ ext.tree[ext.entries[1].Name].kind = "reg"
    /\ ext.tree[ext.entries[1].Name].content = ext.entries[1].Content

\* C24: extraction stays under the destination root: whatever exists after
\* any step of an extraction lies under the destination.
C24_StaysUnderRoot ==
    \A n \in Names : ext.tree[n].kind # "none" => UnderRoot(n)

\* ---- writeJson ----

\* Bound: the length of the serialized document in bytes.
MaxData == 6

\* data[lo:hi] of a slice of length len: not ok when the bounds are out of
\* range (the program panics), else the positions lo+1..hi it offers.
Slice(lo, hi, len) ==
    IF 0 <= lo /\ lo <= hi /\ hi <= len
    THEN [ok |-> TRUE, bytes |-> [k \in 1..(hi - lo) |-> lo + k]]
    ELSE [ok |-> FALSE, bytes |-> <<>>]

WriteInit ==
    /\ goos \in GOOS
    /\ goarch = "amd64"
    /\ fs = <<>>
    /\ target = -1
    /\ pc = "idle"
    /\ call = NoCall
    /\ rules = <<>>
    /\ features = <<>>
    /\ verdict = NoVerdict
    /\ batch = NoBatch
    /\ orch = NoOrch
    /\ units = NoUnits
    /\ main = NoMain
    /\ ext = NoExt
    /\ jdk = NoJdk
    /\ \E len \in 0..MaxData :
          wj = [pc |-> "marshal", len |-> len, offset |-> 0, remaining |-> 0,
                written |-> <<>>, err |-> Nil]

writeFrame == <<goos, goarch, fs, target, pc, call, rules, features, verdict,
                batch, orch, units, main, ext, jdk>>

\* The ways writeJson can fail before its loop.
WriteBeginOutcomes == {"ok", "failed to serialize JSON for", "failed to open file"}

\* writeJson lines 92-107: json.Marshal, createFile and the two counters.
WriteJsonBegin(outcome) ==
    /\ wj.pc = "marshal"
    /\ IF outcome = "ok"
       THEN wj' = [wj EXCEPT !.pc = "loop", !.offset = 0, !.remaining = wj.len]
       ELSE wj' = [wj EXCEPT !.pc = "done", !.err = <<outcome>>]
    /\ UNCHANGED writeFrame

\* writeJson lines 109-116: one turn of the loop: the test, the slice
\* data[offset:remaining], file.Write and the counters.  A write takes at
\* least one of the bytes it is offered, or fails.  A write of the empty
\* slice returns 0 and no error, so the turn repeats unchanged for ever:
\* "spin".
WriteJsonLoop(transferred, fails) ==
    /\ wj.pc = "loop"
    /\ IF wj.remaining <= 0
       THEN /\ transferred = 0 /\ ~fails
            /\ wj' = [wj EXCEPT !.pc = "done"]
       ELSE LET offered == Slice(wj.offset, wj.remaining, wj.len)
            IN  IF ~offered.ok
                THEN /\ transferred = 0 /\ ~fails
                     /\ wj' = [wj EXCEPT !.pc = "panic"]
                ELSE IF Len(offered.bytes) = 0
                THEN /\ transferred = 0 /\ ~fails
                     /\ wj' = [wj EXCEPT !.pc = "spin"]
                ELSE IF fails
                THEN /\ transferred = 0
                     /\ wj' = [wj EXCEPT !.pc = "done",
                                         !.err = <<"failed to write file">>]
                ELSE /\ transferred \in 1..Len(offered.bytes)
                     /\ wj' = [wj EXCEPT
                           !.written = @ \o SubSeq(offered.bytes, 1, transferred),
                           !.offset = @ + transferred,
                           !.remaining = @ - transferred]
    /\ UNCHANGED writeFrame

WriteNext ==
    \/ \E outcome \in WriteBeginOutcomes : WriteJsonBegin(outcome)
    \/ \E transferred \in 0..MaxData, fails \in BOOLEAN :
          WriteJsonLoop(transferred, fails)

WriteSpec == WriteInit /\ [][WriteNext]_vars

\* C27: writeJson writes the whole document: whatever the writes accept,
\* the loop never slices out of range, never repeats a turn for ever, and
\* when it ends without a write error the bytes written, in order, are the
\* serialized data, each once.
C27_WritesWholeDocument ==
    /\ wj.pc # "panic"
    /\ wj.pc # "spin"
    /\ wj.pc = "done" /\ wj.err = Nil => wj.written = [k \in 1..wj.len |-> k]

\* ---- downloadJdk ----

\* The path of the JDK archive among the model's paths.
Archive == 1

\* What the query of the releases can end in: the JSON fetch fails, the
\* list is empty (releases[len(releases)-1] panics), the latest release has
\* not exactly one binary, or a package is selected.
QueryOutcomes == {"ok", "download", "empty", "binaries"}

JdkInit ==
    /\ goos \in GOOS
    /\ goarch = "amd64"
    /\ fs \in FileStates
    /\ target = -1
    /\ pc = "idle"
    /\ call = NoCall
    /\ rules = <<>>
    /\ features = <<>>
    /\ verdict = NoVerdict
    /\ batch = NoBatch
    /\ orch = NoOrch
    /\ units = NoUnits
    /\ main = NoMain
    /\ ext = NoExt
    /\ wj = NoWrite
    /\ \E binary \in Downloadables :
          jdk = [pc |-> "query", binary |-> binary,
                 preArchive |-> FileAt(fs, Archive), extracted |-> FALSE,
                 extractedFrom |-> -1, ret |-> "", err |-> Nil]

jdkFrame == <<goos, goarch, target, pc, call, rules, features, verdict,
              batch, orch, units, main, ext, wj>>

\* downloadJdk lines 209-258: the query of the releases and the choice of
\* the package.
JdkQuery(outcome) ==
    /\ jdk.pc = "query"
    /\ jdk' = CASE outcome = "ok" -> [jdk EXCEPT !.pc = "validate"]
                [] outcome = "empty" -> [jdk EXCEPT !.pc = "panic"]
                [] outcome = "binaries" ->
                     [jdk EXCEPT !.pc = "done",
                         !.err = <<"an incorrect amount of binaries was returned">>]
                [] OTHER ->
                     [jdk EXCEPT !.pc = "done", !.err = <<"failed to download">>]
    /\ UNCHANGED <<fs, jdkFrame>>

\* downloadJdk lines 270-279: the check of the archive already on disk.
JdkValidate(faults) ==
    /\ jdk.pc = "validate"
    /\ LET v == validateHash(Archive, hashOf(jdk.binary), fs, faults)
       IN  /\ fs' = v.fs
           /\ jdk' = IF v.err # Nil
                     THEN [jdk EXCEPT !.pc = "done",
                              !.err = Join(<<"failed to hash JVM package">>, v.err)]
                     ELSE IF v.result
                     THEN [jdk EXCEPT !.pc = "find"]
                     ELSE [jdk EXCEPT !.pc = "download"]
    /\ UNCHANGED jdkFrame

\* downloadJdk line 281: the call of downloadFile(archive, &binary), which
\* the steps of downloadFileRaw carry on.
JdkDownload(faults) ==
    /\ jdk.pc = "download"
    /\ call.op = "none"
    /\ DownloadFile(Archive, jdk.binary, faults)

\* downloadJdk lines 282-284: downloadFile has returned.
JdkDownloaded ==
    /\ jdk.pc = "download"
    /\ Returned("downloadFile")
    /\ jdk' = IF call.err # Nil
              THEN [jdk EXCEPT !.pc = "done",
                       !.err = Join(<<"could not download JVM">>, call.err)]
              ELSE [jdk EXCEPT !.pc = "extract"]
    /\ UNCHANGED <<fs, jdkFrame>>

\* downloadJdk lines 286-293: extractZip or extractTar of the archive.
JdkExtract(ok) ==
    /\ jdk.pc = "extract"
    /\ jdk' = IF ok
              THEN [jdk EXCEPT !.pc = "find", !.extracted = TRUE,
                               !.extractedFrom = FileAt(fs, Archive)]
              ELSE [jdk EXCEPT !.pc = "done", !.extracted = TRUE,
                               !.extractedFrom = FileAt(fs, Archive),
                               !.err = <<"failed to extract jvm">>]
    /\ UNCHANGED <<fs, jdkFrame>>

\* downloadJdk lines 276-277 and 295-296: findJdk and the return.
JdkFind(ok) ==
    /\ jdk.pc = "find"
    /\ jdk' = IF ok
              THEN [jdk EXCEPT !.pc = "done", !.ret = "jdk"]
              ELSE [jdk EXCEPT !.pc = "done", !.err = <<"failed to find JVM dir">>]
    /\ UNCHANGED <<fs, jdkFrame>>

JdkNext ==
    \/ \E outcome \in QueryOutcomes : JdkQuery(outcome)
    \/ \E faults \in Faults : JdkValidate(faults)
    \/ \E faults \in Faults : JdkDownload(faults)
    \/ \E mkdirFails \in BOOLEAN, createFails \in BOOLEAN :
          DownloadFileRawCreate(mkdirFails, createFails)
    \/ \E resp \in Responses, removeFails \in BOOLEAN :
          DownloadFileRawGet(resp, removeFails)
    \/ \E faults \in Faults : DownloadFileRawVerify(faults)
    \/ JdkDownloaded
    \/ \E ok \in BOOLEAN : JdkExtract(ok)
    \/ \E ok \in BOOLEAN : JdkFind(ok)

JdkSpec == JdkInit /\ [][JdkNext]_vars

\* C26: JDK acquisition ordering: the archive is extracted only after
\* downloadFile returned success for it, and what is extracted matches the
\* checksum; when the archive on disk at the start matches the checksum
\* nothing is downloaded and nothing extracted; and when downloadJdk returns
\* a JDK directory the archive on disk matches the checksum.
C26_JdkOrdering ==
    /\ jdk.extracted =>
          /\ Returned("downloadFile") /\ call.err = Nil
          /\ DigestMatches(jdk.extractedFrom, hashOf(jdk.binary))
    /\ (/\ jdk.pc \in {"download", "extract", "find", "done"}
        /\ DigestMatches(jdk.preArchive, hashOf(jdk.binary)))
          => call.op = "none" /\ ~jdk.extracted
    /\ (jdk.pc = "done" /\ jdk.err = Nil)
          => DigestMatches(FileAt(fs, Archive), hashOf(jdk.binary))

====
